---- MODULE Spec2Model ----
(***************************************************************************)
(* Execution model of the two example programs of the CPU-8Bit repository  *)
(* (complier/examples/calculator.c and                                     *)
(* examples/c-like/tutorials/variables.c) on the 8-bit machine they are    *)
(* written for.  One action per source statement; the program counter pc   *)
(* names the source line about to execute.                                 *)
(***************************************************************************)
EXTENDS Integers, Sequences, FiniteSets, TLC

VARIABLES
    prog,    \* which program (or statement fragment) is loaded
    pc,      \* label of the statement about to execute ("L<line>")
    env,     \* variable name -> current value, for the variables holding a value
    slot,    \* live variable name -> storage slot (register or frame slot)
    scopes,  \* stack of lexical scopes, each the set of names it declared
    io,      \* port events so far: <<"in" | "out", port, value>>
    log,     \* labels of the statements executed so far, in order
    acc      \* names read or written by the last statement

vars == <<prog, pc, env, slot, scopes, io, log, acc>>

-----------------------------------------------------------------------------
(* Bounds of the model. *)

\* Port values presented on the operand ports 0 and 1: the MaxOperand + 1
\* lowest and the MaxOperand + 1 highest byte values.
MaxOperand == 2

-----------------------------------------------------------------------------
(* The 8-bit value domain. *)

Byte == 256

UInt8 == 0 .. (Byte - 1)

Int8 == (0 - (Byte \div 2)) .. ((Byte \div 2) - 1)

\* Unsigned 8-bit wraparound.
U8(n) == n % Byte

\* Two's-complement 8-bit wraparound.
S8(n) == ((n + (Byte \div 2)) % Byte) - (Byte \div 2)

\* Bitwise operators on bytes, bit by bit from the least significant.
RECURSIVE BitAnd(_, _)
BitAnd(a, b) ==
    IF a = 0 \/ b = 0 THEN 0
    ELSE ((a % 2) * (b % 2)) + 2 * BitAnd(a \div 2, b \div 2)

RECURSIVE BitOr(_, _)
BitOr(a, b) ==
    IF a = 0 THEN b
    ELSE IF b = 0 THEN a
    ELSE (IF (a % 2) + (b % 2) > 0 THEN 1 ELSE 0) + 2 * BitOr(a \div 2, b \div 2)

\* ~a on a uint8: every one of the 8 bits flipped.
BitNot(a) == (Byte - 1) - a

\* bool values are stored as 0 / 1.
Bool(b) == IF b THEN 1 ELSE 0

-----------------------------------------------------------------------------
(* Numeric literals: a literal is the sequence of its characters. *)

DigitValue(c) ==
    CASE c = "0" -> 0 [] c = "1" -> 1 [] c = "2" -> 2 [] c = "3" -> 3
      [] c = "4" -> 4 [] c = "5" -> 5 [] c = "6" -> 6 [] c = "7" -> 7
      [] c = "8" -> 8 [] c = "9" -> 9
      [] c \in {"A", "a"} -> 10 [] c \in {"B", "b"} -> 11
      [] c \in {"C", "c"} -> 12 [] c \in {"D", "d"} -> 13
      [] c \in {"E", "e"} -> 14 [] c \in {"F", "f"} -> 15

HasPrefix(lit, p) == Len(lit) > 2 /\ lit[1] = "0" /\ lit[2] = p

Radix(lit) ==
    IF HasPrefix(lit, "x") THEN 16 ELSE IF HasPrefix(lit, "b") THEN 2 ELSE 10

Digits(lit) == IF Radix(lit) = 10 THEN lit ELSE SubSeq(lit, 3, Len(lit))

RECURSIVE Magnitude(_, _, _)
Magnitude(digits, radix, acc0) ==
    IF digits = <<>> THEN acc0
    ELSE Magnitude(Tail(digits), radix, acc0 * radix + DigitValue(Head(digits)))

\* The unsigned magnitude a literal resolves to.
LitValue(lit) == Magnitude(Digits(lit), Radix(lit), 0)

\* The literal tokens of the two programs.
Lit0 == <<"0">>
Lit1 == <<"1">>
Lit2 == <<"2">>
Lit3 == <<"3">>
Lit5 == <<"5">>
Lit10 == <<"1", "0">>
Lit25 == <<"2", "5">>
Lit50 == <<"5", "0">>
Lit75 == <<"7", "5">>
Lit100 == <<"1", "0", "0">>
Lit255 == <<"2", "5", "5">>
Lit0xFF == <<"0", "x", "F", "F">>
Lit0x01 == <<"0", "x", "0", "1">>
Lit0x02 == <<"0", "x", "0", "2">>
Lit0x03 == <<"0", "x", "0", "3">>
Lit0x04 == <<"0", "x", "0", "4">>
Lit0x05 == <<"0", "x", "0", "5">>
Lit0b10101010 == <<"0", "b", "1", "0", "1", "0", "1", "0", "1", "0">>

CalculatorLiterals == {Lit0, Lit1, Lit2, Lit3, Lit0xFF}

TutorialLiterals ==
    {Lit0, Lit1, Lit2, Lit5, Lit10, Lit25, Lit50, Lit75, Lit100, Lit255,
     Lit0xFF, Lit0x01, Lit0x02, Lit0x03, Lit0x04, Lit0x05, Lit0b10101010}

-----------------------------------------------------------------------------
(* Storage: scope-lifetime slot allocation. *)

Range(f) == {f[x] : x \in DOMAIN f}

Restrict(f, S) == [x \in S |-> f[x]]

\* The lowest slot no live variable holds.
FreeSlot ==
    CHOOSE n \in 0 .. Cardinality(DOMAIN slot) :
        /\ n \notin Range(slot)
        /\ \A m \in 0 .. (n - 1) : m \in Range(slot)

\* A declaration: the name gets a free slot in the innermost scope.
Allocate(name) ==
    /\ slot' = slot @@ (name :> FreeSlot)
    /\ scopes' = [scopes EXCEPT ![Len(scopes)] = @ \cup {name}]

\* `type name = val;`
Declare(name, val) ==
    /\ Allocate(name)
    /\ env' = env @@ (name :> val)

\* `type name;` : storage but no value yet.
DeclareNoInit(name) ==
    /\ Allocate(name)
    /\ env' = env

\* `name = val;`
Assign(name, val) ==
    /\ env' = (name :> val) @@ env
    /\ UNCHANGED <<slot, scopes>>

\* `{` of a block that declares variables.
EnterBlock ==
    /\ scopes' = Append(scopes, {})
    /\ UNCHANGED <<slot, env>>

\* `}` : the block's variables are released.
ExitBlock ==
    LET dead == scopes[Len(scopes)] IN
    /\ scopes' = SubSeq(scopes, 1, Len(scopes) - 1)
    /\ slot' = Restrict(slot, DOMAIN slot \ dead)
    /\ env' = Restrict(env, DOMAIN env \ dead)

NoStorage == UNCHANGED <<env, slot, scopes>>

\* Control passes from statement `from` to statement `to`; the statement
\* read or wrote the variables `touched`.
Step(from, to, touched) ==
    /\ pc = from
    /\ pc' = to
    /\ log' = Append(log, from)
    /\ acc' = touched
    /\ prog' = prog

PortRead(p, v) == io' = Append(io, <<"in", p, v>>)

PortWrite(p, v) == io' = Append(io, <<"out", p, v>>)

NoPort == io' = io

-----------------------------------------------------------------------------
(* complier/examples/calculator.c *)

\* add clamping at 255 instead of wrapping.
addSaturating(a, b) == IF a + b > Byte - 1 THEN Byte - 1 ELSE a + b

add(a, b) == U8(a + b)

subtract(a, b) == U8(a - b)

\* Values an external device may present on a port.
Operands == (0 .. MaxOperand) \cup ((Byte - 1 - MaxOperand) .. (Byte - 1))

PortValues(p) == IF p = LitValue(Lit2) THEN UInt8 ELSE Operands

Calc == prog = "calculator"

\* uint8 num1 = input(0);
ReadNum1 ==
    /\ Calc
    /\ Step("L12", "L13", {"num1"})
    /\ \E v \in PortValues(LitValue(Lit0)) :
          /\ Declare("num1", v)
          /\ PortRead(LitValue(Lit0), v)

\* uint8 num2 = input(1);
ReadNum2 ==
    /\ Calc
    /\ Step("L13", "L14", {"num2"})
    /\ \E v \in PortValues(LitValue(Lit1)) :
          /\ Declare("num2", v)
          /\ PortRead(LitValue(Lit1), v)

\* uint8 op = input(2);
ReadOp ==
    /\ Calc
    /\ Step("L14", "L16", {"op"})
    /\ \E v \in PortValues(LitValue(Lit2)) :
          /\ Declare("op", v)
          /\ PortRead(LitValue(Lit2), v)

\* uint8 result;
DeclResult ==
    /\ Calc
    /\ Step("L16", "L18", {})
    /\ DeclareNoInit("result")
    /\ NoPort

\* `if (op = 1)`: the test always succeeds.
TestOp1Always ==
    /\ Calc
    /\ Step("L18", "L19", {"op"})
    /\ NoStorage /\ NoPort

\* if (op == 1)
TestOp1 ==
    /\ Calc
    /\ Step("L18", IF env["op"] = LitValue(Lit1) THEN "L19" ELSE "L20", {"op"})
    /\ NoStorage /\ NoPort

\* result = add(num1, num2);
AssignAdd ==
    /\ Calc
    /\ Step("L19", "L26", {"result", "num1", "num2"})
    /\ Assign("result", add(env["num1"], env["num2"]))
    /\ NoPort

\* else if (op == 2)
TestOp2 ==
    /\ Calc
    /\ Step("L20", IF env["op"] = LitValue(Lit2) THEN "L21" ELSE "L23", {"op"})
    /\ NoStorage /\ NoPort

\* result = subtract(num1, num2);
AssignSubtract ==
    /\ Calc
    /\ Step("L21", "L26", {"result", "num1", "num2"})
    /\ Assign("result", subtract(env["num1"], env["num2"]))
    /\ NoPort

\* An else block that leaves result unassigned.
AssignErrorMissing ==
    /\ Calc
    /\ Step("L23", "L26", {})
    /\ NoStorage /\ NoPort

\* result = 0xFF;
AssignError ==
    /\ Calc
    /\ Step("L23", "L26", {"result"})
    /\ Assign("result", LitValue(Lit0xFF))
    /\ NoPort

\* output(3, num1): the operand written instead of the result.
OutputOperand ==
    /\ Calc
    /\ Step("L26", "L27", {"num1"})
    /\ PortWrite(LitValue(Lit3), env["num1"])
    /\ NoStorage

\* output(3, result);  An unassigned result would be written as whatever
\* its slot holds.
OutputResult ==
    /\ Calc
    /\ Step("L26", "L27", {"result"})
    /\ \E v \in (IF "result" \in DOMAIN env THEN {env["result"]} ELSE UInt8) :
          PortWrite(LitValue(Lit3), v)
    /\ NoStorage

\* halt();
Halt ==
    /\ Calc
    /\ Step("L27", "halted", {})
    /\ NoStorage /\ NoPort

CalcNext ==
    \/ ReadNum1 \/ ReadNum2 \/ ReadOp \/ DeclResult
    \/ TestOp1 \/ AssignAdd \/ TestOp2 \/ AssignSubtract \/ AssignError
    \/ OutputResult \/ Halt

\* The machine as main is entered: nothing declared, no port event.
Entry(p, at) ==
    /\ prog = p
    /\ pc = at
    /\ env = << >>
    /\ slot = << >>
    /\ scopes = << {} >>
    /\ io = << >>
    /\ log = << >>
    /\ acc = {}

CalcInit == Entry("calculator", "L12")

-----------------------------------------------------------------------------
(* examples/c-like/tutorials/variables.c *)

Tut == prog = "tutorial"

\* Unary minus on an int8.
Negate(n) == S8(0 - n)

\* (int8)u : the bit pattern of a uint8 read as two's complement.
CastInt8(u) == S8(u)

\* (uint8)n : the bit pattern of an int8 read as unsigned.
CastUInt8(n) == U8(n)

\* a && b : the right operand is evaluated only when the left one is true.
AndThen(left, evalRight, skip) == IF left THEN evalRight ELSE skip

\* uint8 counter = 0;
DeclCounter ==
    /\ Tut
    /\ Step("L79", "L82", {"counter"})
    /\ Declare("counter", LitValue(Lit0))
    /\ NoPort

\* uint8 max_value = 255;
DeclMaxValue ==
    /\ Tut
    /\ Step("L82", "L83", {"max_value"})
    /\ Declare("max_value", LitValue(Lit255))
    /\ NoPort

\* uint8 min_value = 0;
DeclMinValue ==
    /\ Tut
    /\ Step("L83", "L86", {"min_value"})
    /\ Declare("min_value", LitValue(Lit0))
    /\ NoPort

\* port_address initialised with 0x0F.
DeclPortAddressTypo ==
    /\ Tut
    /\ Step("L86", "L87", {"port_address"})
    /\ Declare("port_address", LitValue(<<"0", "x", "0", "F">>))
    /\ NoPort

\* uint8 port_address = 0xFF;
DeclPortAddress ==
    /\ Tut
    /\ Step("L86", "L87", {"port_address"})
    /\ Declare("port_address", LitValue(Lit0xFF))
    /\ NoPort

\* uint8 bit_mask = 0b10101010;
DeclBitMask ==
    /\ Tut
    /\ Step("L87", "L101", {"bit_mask"})
    /\ Declare("bit_mask", LitValue(Lit0b10101010))
    /\ NoPort

\* int8 temperature = -25;
DeclTemperature ==
    /\ Tut
    /\ Step("L101", "L102", {"temperature"})
    /\ Declare("temperature", Negate(LitValue(Lit25)))
    /\ NoPort

\* int8 delta = 5;
DeclDelta ==
    /\ Tut
    /\ Step("L102", "L103", {"delta"})
    /\ Declare("delta", LitValue(Lit5))
    /\ NoPort

\* int8 result = 0;
DeclSignedResult ==
    /\ Tut
    /\ Step("L103", "L106", {"result"})
    /\ Declare("result", LitValue(Lit0))
    /\ NoPort

\* The sum kept wider than 8 bits.
AddDeltaNoWrap ==
    /\ prog \in {"tutorial", "signed"}
    /\ Step("L106", "L120", {"result", "temperature", "delta"})
    /\ Assign("result", env["temperature"] + env["delta"])
    /\ NoPort

\* result = temperature + delta;
AddDelta ==
    /\ prog \in {"tutorial", "signed"}
    /\ Step("L106", "L120", {"result", "temperature", "delta"})
    /\ Assign("result", S8(env["temperature"] + env["delta"]))
    /\ NoPort

\* bool is_ready = true;
DeclIsReady ==
    /\ Tut
    /\ Step("L120", "L121", {"is_ready"})
    /\ Declare("is_ready", Bool(TRUE))
    /\ NoPort

\* bool has_error = false;
DeclHasError ==
    /\ Tut
    /\ Step("L121", "L122", {"has_error"})
    /\ Declare("has_error", Bool(FALSE))
    /\ NoPort

\* bool sensor_active = false;
DeclSensorActive ==
    /\ Tut
    /\ Step("L122", "L125", {"sensor_active"})
    /\ Declare("sensor_active", Bool(FALSE))
    /\ NoPort

\* Both operands always evaluated.
IfReadyEager ==
    /\ prog \in {"tutorial", "flags"}
    /\ Step("L125", "L125_right", {"is_ready"})
    /\ NoStorage /\ NoPort

\* if (is_ready && ...) : the left operand.
IfReadyLeft ==
    /\ prog \in {"tutorial", "flags"}
    /\ Step("L125", AndThen(env["is_ready"] = Bool(TRUE), "L125_right", "L140"),
            {"is_ready"})
    /\ NoStorage /\ NoPort

\* if (... && !has_error) : the right operand.
IfReadyRight ==
    /\ prog \in {"tutorial", "flags"}
    /\ Step("L125_right",
            IF env["has_error"] = Bool(FALSE) THEN "L126" ELSE "L140",
            {"has_error"})
    /\ NoStorage /\ NoPort

\* sensor_active = true;
EnableSensor ==
    /\ prog \in {"tutorial", "flags"}
    /\ Step("L126", "L140", {"sensor_active"})
    /\ Assign("sensor_active", Bool(TRUE))
    /\ NoPort

\* counter = counter + 1;
IncrCounter ==
    /\ Tut
    /\ Step("L140", "L141", {"counter"})
    /\ Assign("counter", U8(env["counter"] + LitValue(Lit1)))
    /\ NoPort

\* counter++ with the increment lost.
PostIncrCounterLost ==
    /\ Tut
    /\ Step("L141", "L144", {"counter"})
    /\ NoStorage /\ NoPort

\* counter++;
PostIncrCounter ==
    /\ Tut
    /\ Step("L141", "L144", {"counter"})
    /\ Assign("counter", U8(env["counter"] + 1))
    /\ NoPort

\* max_value -= 10;
SubMaxValue ==
    /\ Tut
    /\ Step("L144", "L145", {"max_value"})
    /\ Assign("max_value", U8(env["max_value"] - LitValue(Lit10)))
    /\ NoPort

\* min_value += 5;
AddMinValue ==
    /\ Tut
    /\ Step("L145", "L148", {"min_value"})
    /\ Assign("min_value", U8(env["min_value"] + LitValue(Lit5)))
    /\ NoPort

\* port_address = port_address | bit_mask;
SetBits ==
    /\ Tut
    /\ Step("L148", "L149", {"port_address", "bit_mask"})
    /\ Assign("port_address", BitOr(env["port_address"], env["bit_mask"]))
    /\ NoPort

\* port_address = port_address & ~bit_mask;
ClearBits ==
    /\ Tut
    /\ Step("L149", "L163", {"port_address", "bit_mask"})
    /\ Assign("port_address", BitAnd(env["port_address"], BitNot(env["bit_mask"])))
    /\ NoPort

\* for (uint8 i = 0; ...; ...) : the init clause, in the loop's own scope.
ForInit ==
    /\ Tut
    /\ Step("L163", "L163_cond", {"i"})
    /\ slot' = slot @@ ("i" :> FreeSlot)
    /\ scopes' = Append(scopes, {"i"})
    /\ env' = env @@ ("i" :> LitValue(Lit0))
    /\ NoPort

\* i <= 10: one iteration too many.
ForCondInclusive ==
    /\ Tut
    /\ Step("L163_cond", IF env["i"] <= LitValue(Lit10) THEN "L166" ELSE "L167", {"i"})
    /\ NoStorage /\ NoPort

\* for (...; i < 10; ...) : the condition, tested before each iteration.
ForCond ==
    /\ Tut
    /\ Step("L163_cond", IF env["i"] < LitValue(Lit10) THEN "L166" ELSE "L167", {"i"})
    /\ NoStorage /\ NoPort

\* result = result + (int8)i;
ForBody ==
    /\ prog \in {"tutorial", "sum"}
    /\ Step("L166", "L163_step", {"result", "i"})
    /\ Assign("result", S8(env["result"] + CastInt8(env["i"])))
    /\ NoPort

\* for (...; ...; i++) : the step clause, then back to the condition.
ForStep ==
    /\ Tut
    /\ Step("L163_step", "L163_cond", {"i"})
    /\ Assign("i", U8(env["i"] + 1))
    /\ NoPort

\* The } of the for loop: its scope, holding i, ends.
ForExit ==
    /\ Tut
    /\ Step("L167", "L170", {})
    /\ ExitBlock
    /\ NoPort

\* uint8 threshold = (temperature > 0) ? 100 : 50;
DeclThreshold ==
    /\ Tut
    /\ Step("L170", "L173", {"threshold", "temperature"})
    /\ Declare("threshold",
               IF env["temperature"] > LitValue(Lit0)
               THEN LitValue(Lit100) ELSE LitValue(Lit50))
    /\ NoPort

\* uint8 status_flags = 0;
DeclStatusFlags ==
    /\ Tut
    /\ Step("L173", "L174", {"status_flags"})
    /\ Declare("status_flags", LitValue(Lit0))
    /\ NoPort

\* status_flags |= 0x01;
SetEnableFlag ==
    /\ Tut
    /\ Step("L174", "L175", {"status_flags"})
    /\ Assign("status_flags", BitOr(env["status_flags"], LitValue(Lit0x01)))
    /\ NoPort

\* status_flags |= 0x04;
SetReadyFlag ==
    /\ Tut
    /\ Step("L175", "L176", {"status_flags"})
    /\ Assign("status_flags", BitOr(env["status_flags"], LitValue(Lit0x04)))
    /\ NoPort

\* bool system_ready = (status_flags & 0x05) == 0x05;
DeclSystemReady ==
    /\ Tut
    /\ Step("L176", "L189", {"system_ready", "status_flags"})
    /\ Declare("system_ready",
               Bool(BitAnd(env["status_flags"], LitValue(Lit0x05)) = LitValue(Lit0x05)))
    /\ NoPort

\* {
BlockEnter ==
    /\ Tut
    /\ Step("L189", "L190", {})
    /\ EnterBlock
    /\ NoPort

\* uint8 temporary = counter * 2;
DeclTemporary ==
    /\ Tut
    /\ Step("L190", "L191", {"temporary", "counter"})
    /\ Declare("temporary", U8(env["counter"] * LitValue(Lit2)))
    /\ NoPort

\* write_port(0x01, temporary);
WriteTemporary ==
    /\ Tut
    /\ Step("L191", "L193", {"temporary"})
    /\ PortWrite(LitValue(Lit0x01), env["temporary"])
    /\ NoStorage

\* A block exit that releases nothing.
BlockExitKeeps ==
    /\ Tut
    /\ Step("L193", "L196", {})
    /\ NoStorage /\ NoPort

\* } : 'temporary' goes out of scope here.
BlockExit ==
    /\ Tut
    /\ Step("L193", "L196", {})
    /\ ExitBlock
    /\ NoPort

\* uint8 percent = 75;
DeclPercent ==
    /\ Tut
    /\ Step("L196", "L197", {"percent"})
    /\ Declare("percent", LitValue(Lit75))
    /\ NoPort

\* bool is_valid = (percent <= 100);
DeclIsValid ==
    /\ Tut
    /\ Step("L197", "L210", {"is_valid", "percent"})
    /\ Declare("is_valid", Bool(env["percent"] <= LitValue(Lit100)))
    /\ NoPort

\* write_port(0x01, counter);
WriteCounter ==
    /\ Tut
    /\ Step("L210", "L211", {"counter"})
    /\ PortWrite(LitValue(Lit0x01), env["counter"])
    /\ NoStorage

\* write_port(0x02, (uint8)result);
WriteResult ==
    /\ Tut
    /\ Step("L211", "L212", {"result"})
    /\ PortWrite(LitValue(Lit0x02), CastUInt8(env["result"]))
    /\ NoStorage

\* write_port(0x03, system_ready ? 1 : 0);
WriteSystemReady ==
    /\ Tut
    /\ Step("L212", "L215", {"system_ready"})
    /\ PortWrite(LitValue(Lit0x03),
                 IF env["system_ready"] = Bool(TRUE)
                 THEN LitValue(Lit1) ELSE LitValue(Lit0))
    /\ NoStorage

\* } of main: all variables automatically deallocated.
MainReturn ==
    /\ Tut
    /\ Step("L215", "returned", {})
    /\ ExitBlock
    /\ NoPort

TutNext ==
    \/ DeclCounter \/ DeclMaxValue \/ DeclMinValue \/ DeclPortAddress
    \/ DeclBitMask \/ DeclTemperature \/ DeclDelta \/ DeclSignedResult
    \/ AddDelta \/ DeclIsReady \/ DeclHasError \/ DeclSensorActive
    \/ IfReadyLeft \/ IfReadyRight \/ EnableSensor
    \/ IncrCounter \/ PostIncrCounter \/ SubMaxValue \/ AddMinValue
    \/ SetBits \/ ClearBits
    \/ ForInit \/ ForCond \/ ForBody \/ ForStep \/ ForExit
    \/ DeclThreshold \/ DeclStatusFlags \/ SetEnableFlag \/ SetReadyFlag
    \/ DeclSystemReady
    \/ BlockEnter \/ DeclTemporary \/ WriteTemporary \/ BlockExit
    \/ DeclPercent \/ DeclIsValid
    \/ WriteCounter \/ WriteResult \/ WriteSystemReady \/ MainReturn

TutInit == Entry("tutorial", "L79")

-----------------------------------------------------------------------------
(* The two programs. *)

Init == CalcInit \/ TutInit

Next == CalcNext \/ TutNext

Spec == Init /\ [][Next]_vars

\* The CPU keeps executing instructions until the program ends.
FairSpec == Spec /\ WF_vars(Next)

-----------------------------------------------------------------------------
(* Single functions and statements, run from every value of their inputs. *)

\* return a + b;   (add called on its own)
ReturnAdd ==
    /\ prog = "add"
    /\ Step("L4", "returned", {"a", "b"})
    /\ Assign("return", add(env["a"], env["b"]))
    /\ NoPort

\* return a - b;   (subtract called on its own)
ReturnSubtract ==
    /\ prog = "subtract"
    /\ Step("L8", "returned", {"a", "b"})
    /\ Assign("return", subtract(env["a"], env["b"]))
    /\ NoPort

\* The machine about to execute statement `at` with the variables `names`
\* live and holding `vals`.
Loaded(p, at, names, vals) ==
    LET idx(n) == CHOOSE k \in DOMAIN names : names[k] = n IN
    /\ prog = p
    /\ pc = at
    /\ env = [n \in Range(names) |-> vals[idx(n)]]
    /\ slot = [n \in Range(names) |-> idx(n) - 1]
    /\ scopes = << Range(names) >>
    /\ io = << >>
    /\ log = << >>
    /\ acc = {}

UnitInit ==
    \/ \E a \in UInt8, b \in UInt8 : Loaded("add", "L4", <<"a", "b">>, <<a, b>>)
    \/ \E a \in UInt8, b \in UInt8 : Loaded("subtract", "L8", <<"a", "b">>, <<a, b>>)
    \/ \E t \in Int8, d \in Int8 :
          Loaded("signed", "L106", <<"temperature", "delta", "result">>,
                 <<t, d, LitValue(Lit0)>>)
    \/ \E r \in Int8, i \in UInt8 : Loaded("sum", "L166", <<"result", "i">>, <<r, i>>)
    \/ \E r \in BOOLEAN, e \in BOOLEAN, s \in BOOLEAN :
          Loaded("flags", "L125", <<"is_ready", "has_error", "sensor_active">>,
                 <<Bool(r), Bool(e), Bool(s)>>)

UnitNext == ReturnAdd \/ ReturnSubtract \/ TutNext

UnitSpec == (UnitInit \/ TutInit) /\ [][UnitNext]_vars

-----------------------------------------------------------------------------
(* Properties. *)

\* How many times the statement labelled l has executed.
Count(l) == Cardinality({k \in DOMAIN log : log[k] = l})

Ran(l) == \E k \in DOMAIN log : log[k] = l

Holds(name) == name \in DOMAIN env

\* Executions of the three assignment blocks of the calculator's if chain.
BlockRuns == Count("L19") + Count("L21") + Count("L23")

\* C1: in the calculator, for every op in 0..255 and every num1, num2,
\* exactly one of the three assignment blocks executes: op = 1 gives
\* result = add(num1, num2), op = 2 gives result = subtract(num1, num2),
\* every other op (0 included) gives result = 0xFF; never two blocks, and
\* never none once the chain is left.
C1_ExactlyOneBlock ==
    Calc =>
        /\ BlockRuns <= 1
        /\ pc \in {"L26", "L27", "halted"} =>
              /\ BlockRuns = 1
              /\ Ran("L19") <=> env["op"] = 1
              /\ Ran("L21") <=> env["op"] = 2
              /\ Ran("L23") <=> env["op"] \notin {1, 2}
              /\ env["op"] = 1 => env["result"] = add(env["num1"], env["num2"])
              /\ env["op"] = 2 => env["result"] = subtract(env["num1"], env["num2"])
              /\ env["op"] \notin {1, 2} => env["result"] = 255

\* A run with op = 0 that took the else block alone and holds 0xFF.
C1_Witness ==
    /\ Calc /\ pc = "halted"
    /\ env["op"] = 0
    /\ Ran("L23") /\ ~Ran("L19") /\ ~Ran("L21")
    /\ env["result"] = 255

\* C2: for all uint8 a, b, add(a, b) returns (a + b) mod 256 and
\* subtract(a, b) returns (a - b) mod 256: a result outside 0..255 wraps
\* around, the call still returns, and the value returned is in 0..255.
C2_WrapAround ==
    /\ prog = "add" /\ pc = "returned" =>
          /\ env["return"] \in 0 .. 255
          /\ env["return"] =
                IF env["a"] + env["b"] > 255
                THEN env["a"] + env["b"] - 256 ELSE env["a"] + env["b"]
    /\ prog = "subtract" /\ pc = "returned" =>
          /\ env["return"] \in 0 .. 255
          /\ env["return"] =
                IF env["a"] - env["b"] < 0
                THEN env["a"] - env["b"] + 256 ELSE env["a"] - env["b"]
    /\ prog \in {"add", "subtract"} /\ pc # "returned" => ENABLED UnitNext

\* add returned after a sum above 255 wrapped.
C2_Witness ==
    /\ prog = "add" /\ pc = "returned"
    /\ env["a"] = 200 /\ env["b"] = 100
    /\ env["return"] = 44

\* The port events of the calculator after n of them.
CalcPorts(n) ==
    SubSeq(<< <<"in", 0, IF Holds("num1") THEN env["num1"] ELSE 0>>,
              <<"in", 1, IF Holds("num2") THEN env["num2"] ELSE 0>>,
              <<"in", 2, IF Holds("op") THEN env["op"] ELSE 0>>,
              <<"out", 3, IF Holds("result") THEN env["result"] ELSE 0>> >>,
           1, n)

\* How many port operations precede each statement of the calculator.
CalcPortsBefore ==
    CASE pc = "L12" -> 0
      [] pc = "L13" -> 1
      [] pc = "L14" -> 2
      [] pc \in {"L16", "L18", "L19", "L20", "L21", "L23", "L26"} -> 3
      [] pc \in {"L27", "halted"} -> 4

CalcPortOrder == Calc => io = CalcPorts(CalcPortsBefore)

\* C3: every run of the calculator reads port 0, then port 1, then port 2,
\* then writes the selected branch's result to port 3 exactly once, then
\* halts; halt is always reached, and no port operation follows it.
C3_PortsInOrderThenHalt ==
    /\ [](CalcPortOrder)
    /\ [][Calc /\ pc = "halted" => io' = io]_vars
    /\ [](Calc /\ pc = "halted" => ~ENABLED Next)
    /\ (Calc ~> pc = "halted")

\* A halted run whose four port events are the three reads and the write.
C3_Witness ==
    /\ Calc /\ pc = "halted"
    /\ Len(io) = 4
    /\ io[1][1] = "in" /\ io[2][1] = "in" /\ io[3][1] = "in"
    /\ io[4] = <<"out", 3, env["result"]>>
    /\ env["op"] = 1

\* C4: `is_ready && !has_error` is short-circuit: when is_ready is false
\* the right operand is not evaluated and the body does not run; the body
\* runs exactly when is_ready is true and has_error is false (in the
\* tutorial's own run sensor_active becomes true).
C4_ShortCircuit ==
    prog \in {"tutorial", "flags"} /\ Holds("is_ready") /\ Holds("has_error") =>
        /\ Ran("L125_right") => env["is_ready"] = 1
        /\ env["is_ready"] = 0 => ~Ran("L125_right") /\ ~Ran("L126")
        /\ Ran("L126") => env["is_ready"] = 1 /\ env["has_error"] = 0
        /\ Ran("L125") /\ pc \notin {"L125_right", "L126"}
              => (Ran("L126") <=> (env["is_ready"] = 1 /\ env["has_error"] = 0))
        /\ Ran("L126") => env["sensor_active"] = 1
        /\ Tut /\ Ran("L125") /\ pc \notin {"L125_right", "L126"}
              => env["sensor_active"] = 1

\* is_ready false: the statement is left after the left operand alone.
C4_Witness ==
    /\ prog = "flags" /\ pc = "L140"
    /\ env["is_ready"] = 0 /\ env["has_error"] = 0
    /\ log = <<"L125">>

\* n and m denote the same 8-bit pattern.
Congruent(n, m) == (n - m) % 256 = 0

\* One execution of `result = result + (int8)i` yields the int8 congruent to
\* the sum of result and i read as two's complement.
SumWraps ==
    prog \in {"tutorial", "sum"} /\ pc = "L166" =>
        /\ env'["result"] \in -128 .. 127
        /\ Congruent(env'["result"],
                     env["result"] + (IF env["i"] > 127 THEN env["i"] - 256 ELSE env["i"]))

Lit0b11111111 == <<"0", "b", "1", "1", "1", "1", "1", "1", "1", "1">>

\* C6: a literal resolves to the same value whatever its radix: 0xFF, 255
\* and 0b11111111 are all 255, so max_value and port_address start equal,
\* bit_mask holds 170, the calculator's error code is 255, and every
\* literal of both programs is in 0..255.
C6_LiteralRadix ==
    /\ LitValue(Lit0xFF) = 255
    /\ LitValue(Lit255) = 255
    /\ LitValue(Lit0b11111111) = 255
    /\ \A lit \in CalculatorLiterals \cup TutorialLiterals : LitValue(lit) \in 0 .. 255
    /\ Tut /\ pc \in {"L87", "L101", "L102", "L103", "L106"}
          => env["max_value"] = env["port_address"] /\ env["port_address"] = 255
    /\ Tut /\ Holds("bit_mask") => env["bit_mask"] = 170
    /\ Calc /\ Ran("L23") => env["result"] = 255

\* Both variables declared, from a decimal and from a hexadecimal literal.
C6_Witness ==
    /\ Tut /\ pc = "L101"
    /\ env["max_value"] = 255 /\ env["port_address"] = 255
    /\ env["bit_mask"] = 170

\* Every body execution directly follows a condition test, and every step
\* directly follows a body execution.
LoopOrder ==
    \A k \in DOMAIN log :
        /\ log[k] = "L166" => k > 1 /\ log[k - 1] = "L163_cond"
        /\ log[k] = "L163_step" => k > 1 /\ log[k - 1] = "L166"
        /\ log[k] = "L163_cond" => k > 1 /\ log[k - 1] \in {"L163", "L163_step"}

LoopInv ==
    /\ Count("L163") <= 1
    /\ LoopOrder
    /\ pc = "L166" => env["i"] = Count("L166") /\ env["i"] \in 0 .. 9
    /\ pc = "L167" => env["i"] = 10
    /\ Ran("L167") \/ pc = "L167" =>
          /\ Count("L163") = 1
          /\ Count("L166") = 10
          /\ Count("L163_cond") = 11
          /\ Count("L163_step") = 10
    /\ pc \in {"L167", "L170"} => env["result"] = 25

\* C7: the for loop runs its init once, tests the condition before each
\* iteration, then body, then step: the body runs exactly 10 times with
\* i = 0..9 in increasing order, the condition is tested 11 times, the loop
\* terminates with i = 10, and result is then 25.
C7_ForLoop ==
    /\ [](Tut => LoopInv)
    /\ (Tut /\ pc = "L163" ~> pc = "L170")

\* The loop has been left after its tenth iteration.
C7_Witness ==
    /\ Tut /\ pc = "L170"
    /\ Count("L166") = 10 /\ Count("L163_cond") = 11
    /\ env["result"] = 25
    /\ ~Holds("i")

\* Statements during which the loop variable i exists.
LoopLabels == {"L163_cond", "L166", "L163_step", "L167"}

\* Statements during which the inner block's variable exists.
BlockLabels == {"L191", "L193"}

\* C8: storage follows lexical scope: the slot of a block-scoped variable
\* (temporary, i) is held exactly while its block is open, is released when
\* the block exits and is taken again by a later declaration (threshold
\* after i, percent after temporary); no two variables live at the same
\* time share a slot, and no statement reads or writes a variable whose
\* block has exited.
C8_ScopeLifetime ==
    Tut =>
        /\ \A x \in DOMAIN slot, y \in DOMAIN slot : slot[x] = slot[y] => x = y
        /\ acc \subseteq DOMAIN slot
        /\ DOMAIN env \subseteq DOMAIN slot
        /\ "i" \in DOMAIN slot <=> pc \in LoopLabels
        /\ "temporary" \in DOMAIN slot <=> pc \in BlockLabels
        /\ "i" \in DOMAIN slot => slot["i"] = 11
        /\ "threshold" \in DOMAIN slot => slot["threshold"] = 11
        /\ "temporary" \in DOMAIN slot => slot["temporary"] = 14
        /\ "percent" \in DOMAIN slot => slot["percent"] = 14
        /\ pc = "returned" => DOMAIN slot = {}

\* percent lives in the slot temporary held, after the inner block exited.
C8_Witness ==
    /\ Tut /\ pc = "L197"
    /\ Ran("L193")
    /\ "temporary" \notin DOMAIN slot
    /\ slot["percent"] = 14

\* C9: in the calculator, result is declared without a value and is assigned
\* exactly once on every path before output(3, result) reads it, so the
\* value written to port 3 is always the assigned one.
C9_AssignedBeforeRead ==
    Calc =>
        /\ pc \in {"L18", "L19", "L20", "L21", "L23"} => ~Holds("result")
        /\ pc = "L26" => Holds("result") /\ BlockRuns = 1
        /\ Ran("L26") =>
              /\ Holds("result")
              /\ BlockRuns = 1
              /\ io[Len(io)] = <<"out", 3, env["result"]>>

\* The subtract path: assigned once, then read by the output.
C9_Witness ==
    /\ Calc /\ pc = "L27"
    /\ Ran("L21") /\ BlockRuns = 1
    /\ io[4] = <<"out", 3, env["result"]>>

\* The port events of a complete run of the tutorial.
TutorialPorts ==
    << <<"out", 1, 4>>, <<"out", 1, 2>>, <<"out", 2, 25>>, <<"out", 3, 1>> >>

\* How many of the four write_port statements have executed.
TutorialWrites == Count("L191") + Count("L210") + Count("L211") + Count("L212")

\* C10: the tutorial performs exactly four port writes and no read: port 1
\* receives 4, port 1 receives 2, port 2 receives 25, port 3 receives 1, in
\* this order; then the run ends.
C10_TutorialPorts ==
    Tut =>
        /\ io = SubSeq(TutorialPorts, 1, TutorialWrites)
        /\ pc \in {"L215", "returned"} => io = TutorialPorts
        /\ pc = "L215" => ENABLED MainReturn
        /\ pc = "returned" => ~ENABLED Next

\* The run has ended with the four writes done.
C10_Witness ==
    /\ Tut /\ pc = "returned"
    /\ Len(io) = 4
    /\ io[1] = <<"out", 1, 4>> /\ io[4] = <<"out", 3, 1>>

====
